---- MODULE Spec2Model ----
(***************************************************************************)
(* Model of the AI4I 2020 data-curation pipeline:                          *)
(*   DataLoader        (scripts/load_data.py)                              *)
(*   DataTransformer   (scripts/transform_data.py)                         *)
(*   DataExporter      (scripts/export_data.py)                            *)
(*   ProvenanceLogger  (scripts/log_provenance.py)                         *)
(*   main()            (main.py), the orchestrator                         *)
(*                                                                         *)
(* Numbers.  A finite number is an exact rational <<n, d>> with d > 0 in   *)
(* lowest terms; NaN is <<0, 0>>.  A scaled cell (x - center) / scale,     *)
(* where scale may be a square root (the standard deviation), is kept      *)
(* exactly as a signed root <<s, n, d>> = s * sqrt(n / d).  A scale is     *)
(* kept by its square.  Power_Estimate is kept as its rational multiple    *)
(* of pi.                                                                  *)
(***************************************************************************)
EXTENDS Integers, Sequences, FiniteSets, TLC

VARIABLES
    fs,                  \* the file system: existing path -> content
    pyarrow,             \* whether a Parquet engine can be imported
    now,                 \* the wall clock read by datetime.now()
    loader_df,           \* DataLoader.df
    validation_results,  \* DataLoader.validation_results
    t_df,                \* DataTransformer.df
    df_transformed,      \* DataTransformer.df_transformed
    df_normalized,       \* the caller's reference to the table the last
                         \* normalize_features call returned, and whether it
                         \* is the object self.df_transformed refers to
    transformation_log,  \* DataTransformer.transformation_log
    e_df,                \* DataExporter.df
    export_log,          \* DataExporter.export_log
    provenance_record,   \* ProvenanceLogger.provenance_record
    pc,                  \* position of main() / of the calling script
    rc,                  \* main()'s return value, -1 while running
    calls,               \* calls a script has made on its component, and how
                         \* many of them returned
    last                 \* the last call made and how it ended

vars == <<fs, pyarrow, now, loader_df, validation_results, t_df,
          df_transformed, df_normalized, transformation_log, e_df, export_log,
          provenance_record, pc, rc, calls, last>>

\* ------------------------------------------------------------------ bounds
\* Rows in an input file.
MaxRows == 3
\* Calls a script makes on one component.
MaxCalls == 3
\* Rows of the tables outlier detection is compared on.
OutlierRows == 4

\* ------------------------------------------------------------- arithmetic
\* Python's None, and the empty dict.
None == <<>>

Abs(x) == IF x < 0 THEN -x ELSE x

Sgn(x) == IF x < 0 THEN -1 ELSE IF x = 0 THEN 0 ELSE 1

RECURSIVE GCD(_, _)
GCD(a, b) == IF b = 0 THEN a ELSE GCD(b, a % b)

NaN == <<0, 0>>

IsNaN(q) == q[2] = 0

\* n / d in lowest terms with a positive denominator.
Rat(n, d) ==
    IF d = 0 THEN NaN
    ELSE LET g == GCD(Abs(n), Abs(d))
             s == IF d < 0 THEN -1 ELSE 1
         IN  <<s * (n \div g), s * (d \div g)>>

R(x) == <<x, 1>>

RAdd(p, q) == IF IsNaN(p) \/ IsNaN(q) THEN NaN
              ELSE Rat(p[1] * q[2] + q[1] * p[2], p[2] * q[2])

RSub(p, q) == IF IsNaN(p) \/ IsNaN(q) THEN NaN
              ELSE Rat(p[1] * q[2] - q[1] * p[2], p[2] * q[2])

RMul(p, q) == IF IsNaN(p) \/ IsNaN(q) THEN NaN
              ELSE Rat(p[1] * q[1], p[2] * q[2])

\* Float division: x / 0 is NaN or +-inf, neither of which compares.
RDiv(p, q) == IF IsNaN(p) \/ IsNaN(q) \/ q[1] = 0 THEN NaN
              ELSE Rat(p[1] * q[2], p[2] * q[1])

\* Comparisons with NaN are False, as for IEEE floats.
RLt(p, q) == ~IsNaN(p) /\ ~IsNaN(q) /\ p[1] * q[2] < q[1] * p[2]

RGt(p, q) == RLt(q, p)

RECURSIVE SqrtSearch(_, _, _)
SqrtSearch(n, lo, hi) ==
    IF lo >= hi THEN lo
    ELSE LET mid == (lo + hi + 1) \div 2
         IN  IF mid * mid <= n THEN SqrtSearch(n, mid, hi)
             ELSE SqrtSearch(n, lo, mid - 1)

\* floor(sqrt(n)) for n >= 0.
ISqrt(n) == SqrtSearch(n, 0, IF n < 46340 THEN n ELSE 46340)

IsSquare(n) == n >= 0 /\ ISqrt(n) * ISqrt(n) = n

\* The signed root s * sqrt(n / d) of the quotient num / sqrt(den2).
Root(num, den2) ==
    IF IsNaN(num) \/ IsNaN(den2) \/ den2[1] = 0 THEN <<0, 0, 0>>
    ELSE LET q == RDiv(RMul(num, num), den2)
         IN  <<Sgn(num[1]), q[1], q[2]>>

RootIsNaN(z) == z[3] = 0

\* z * sqrt(s2) + c for a signed root z: a rational when the product is one,
\* NaN when z is NaN, and <<1, 0>> (no rational at all) otherwise.
Unscale(z, s2, c) ==
    IF RootIsNaN(z) \/ IsNaN(s2) \/ IsNaN(c) THEN NaN
    ELSE LET p == RMul(<<z[2], z[3]>>, s2)
         IN  IF IsSquare(p[1]) /\ IsSquare(p[2])
             THEN RAdd(Rat(z[1] * ISqrt(p[1]), ISqrt(p[2])), c)
             ELSE <<1, 0>>

\* ---------------------------------------------------------------- tables
\* A table (CSV file content, DataFrame) is [columns, dtypes, rows]: the set
\* of column names, the dtype of each, and the rows.  A row holds the cells
\* of the columns the pipeline reads by name (CellColumns and the derived
\* columns); the cells of the other columns are never read by name, are not
\* null and do not tell two rows apart.
CONTINUOUS_FEATURES ==
    <<"Air temperature [K]", "Process temperature [K]",
      "Rotational speed [rpm]", "Torque [Nm]", "Tool wear [min]">>

Features == {CONTINUOUS_FEATURES[i] : i \in DOMAIN CONTINUOUS_FEATURES}

EXPECTED_COLUMNS ==
    {"UDI", "Product ID", "Type", "Air temperature [K]",
     "Process temperature [K]", "Rotational speed [rpm]", "Torque [Nm]",
     "Tool wear [min]", "Machine failure", "TWF", "HDF", "PWF", "OSF", "RNF"}

EXPECTED_DTYPES ==
    [c \in EXPECTED_COLUMNS |->
        IF c \in {"Product ID", "Type"} THEN "object"
        ELSE IF c \in {"Air temperature [K]", "Process temperature [K]",
                       "Torque [Nm]"} THEN "float64"
        ELSE "int64"]

\* 10000 in the source; scaled so that files of exactly, fewer than and more
\* than the expected number of rows are all enumerated.
EXPECTED_ROWS == 2

StringColumns == {"Type", "Tool_Wear_Category"}

CellColumns == Features \cup {"Type"}

\* pandas reads an empty field as NaN.
NullString == "NaN"

IsNull(c, v) == IF c \in StringColumns THEN v = NullString ELSE IsNaN(v)

Len0(df) == Len(df.rows)

Column(df, c) == [i \in 1..Len(df.rows) |-> df.rows[i][c]]

\* df.isnull().sum().sum()
NullCount(df) ==
    Cardinality({<<i, c>> \in (1..Len(df.rows)) \X CellColumns :
                    c \in df.columns /\ IsNull(c, df.rows[i][c])})

\* df.duplicated().sum(): rows equal to an earlier row.
DuplicatedCount(df) ==
    Cardinality({i \in 1..Len(df.rows) :
                    \E j \in 1..(i - 1) : df.rows[j] = df.rows[i]})

\* ------------------------------------------------------------ input files
\* A path is the tuple of its parts.
DATA_PATH == <<"data", "AI4I_2020.csv">>

Row(air, proc, rpm, torque, wear, type) ==
    [c \in CellColumns |->
        CASE c = "Air temperature [K]" -> R(air)
          [] c = "Process temperature [K]" -> R(proc)
          [] c = "Rotational speed [rpm]" -> R(rpm)
          [] c = "Torque [Nm]" -> R(torque)
          [] c = "Tool wear [min]" -> R(wear)
          [] OTHER -> type]

\* The rows input files are made of.
RowPool ==
    { Row(298, 308, 1500, 42, 0, "L"),
      Row(300, 310, 1400, 40, 100, "M"),
      Row(302, 309, 1600, 50, 200, NullString),
      Row(298, 311, 1500, 46, 250, "H") }

RECURSIVE SeqsUpTo(_, _)
SeqsUpTo(S, n) ==
    IF n = 0 THEN {<<>>}
    ELSE LET T == SeqsUpTo(S, n - 1)
         IN  T \cup {Append(t, x) : t \in {u \in T : Len(u) = n - 1}, x \in S}

\* Columns an input file may lack, columns it may have beyond the schema, and
\* columns whose cells may read back with another dtype.
Droppable == {"Torque [Nm]", "RNF"}
ExtraColumns == {"Notes"}
Retypable == {"UDI", "Torque [Nm]"}

OtherDtype(c) == IF EXPECTED_DTYPES[c] = "int64" THEN "float64" ELSE "int64"

Table(missing, extra, retyped, rows) ==
    LET cols == (EXPECTED_COLUMNS \ missing) \cup extra
    IN  [columns |-> cols,
         dtypes  |-> [c \in cols |->
                        IF c \in extra THEN "object"
                        ELSE IF c \in retyped THEN OtherDtype(c)
                        ELSE EXPECTED_DTYPES[c]],
         rows    |-> [i \in 1..Len(rows) |->
                        [c \in CellColumns \cap cols |-> rows[i][c]]]]

InputTables ==
    { Table(m, x, t, rows) :
        m \in SUBSET Droppable, x \in SUBSET ExtraColumns,
        t \in SUBSET Retypable, rows \in SeqsUpTo(RowPool, MaxRows) }

\* Tables with every expected column, of the expected dtype.
CleanTables ==
    { Table({}, {}, {}, rows) : rows \in SeqsUpTo(RowPool, MaxRows) }

\* ----------------------------------------------------------- DataLoader
Call(op, method, threshold, filename, exc) ==
    [op |-> op, method |-> method, threshold |-> threshold,
     filename |-> filename, exc |-> exc]

NoCall == Call("", "", NaN, "", "")

Status(ok, bad) == IF ok THEN "PASS" ELSE bad

\* Lines 75-79: the number of rows against EXPECTED_ROWS.
RowCountCheck(df) ==
    [expected |-> EXPECTED_ROWS, actual |-> Len0(df),
     status |-> Status(Len0(df) = EXPECTED_ROWS, "WARN")]

\* ColumnsCheck with a column beyond the schema treated as fatal too.
ColumnsCheckExtraFails(df) ==
    LET missing_cols == EXPECTED_COLUMNS \ df.columns
        extra_cols == df.columns \ EXPECTED_COLUMNS
    IN  [expected |-> Cardinality(EXPECTED_COLUMNS),
         actual |-> Cardinality(df.columns),
         missing |-> missing_cols, extra |-> extra_cols,
         status |-> Status(missing_cols = {} /\ extra_cols = {}, "FAIL")]

\* Lines 82-91: the columns missing from the table and those beyond the schema.
ColumnsCheck(df) ==
    LET missing_cols == EXPECTED_COLUMNS \ df.columns
        extra_cols == df.columns \ EXPECTED_COLUMNS
    IN  [expected |-> Cardinality(EXPECTED_COLUMNS),
         actual |-> Cardinality(df.columns),
         missing |-> missing_cols, extra |-> extra_cols,
         status |-> Status(missing_cols = {}, "FAIL")]

\* DataTypesCheck without the `if col in self.df.columns` guard: an absent
\* column is reported as a mismatch.
DataTypesCheckNoSkip(df) ==
    LET dtype_mismatches ==
            { [column |-> c, expected |-> EXPECTED_DTYPES[c],
               actual |-> IF c \in df.columns THEN df.dtypes[c] ELSE "absent"] :
                c \in {k \in DOMAIN EXPECTED_DTYPES :
                          k \notin df.columns
                          \/ df.dtypes[k] # EXPECTED_DTYPES[k]} }
    IN  [mismatches |-> dtype_mismatches,
         status |-> Status(dtype_mismatches = {}, "WARN")]

\* Lines 94-108: the dtype of each expected column that is in the table.
DataTypesCheck(df) ==
    LET dtype_mismatches ==
            { [column |-> c, expected |-> EXPECTED_DTYPES[c],
               actual |-> df.dtypes[c]] :
                c \in {k \in DOMAIN EXPECTED_DTYPES :
                          k \in df.columns
                          /\ df.dtypes[k] # EXPECTED_DTYPES[k]} }
    IN  [mismatches |-> dtype_mismatches,
         status |-> Status(dtype_mismatches = {}, "WARN")]

\* MissingValuesCheck with nulls treated as fatal.
MissingValuesCheckFatal(df) ==
    [total |-> NullCount(df), status |-> Status(NullCount(df) = 0, "FAIL")]

\* Lines 111-115
MissingValuesCheck(df) ==
    [total |-> NullCount(df), status |-> Status(NullCount(df) = 0, "WARN")]

\* Lines 118-122
DuplicatesCheck(df) ==
    [total |-> DuplicatedCount(df),
     status |-> Status(DuplicatedCount(df) = 0, "WARN")]

\* The report validate_structure builds for a loaded table.
ValidationReport(df) ==
    [row_count |-> RowCountCheck(df), columns |-> ColumnsCheck(df),
     data_types |-> DataTypesCheck(df),
     missing_values |-> MissingValuesCheck(df),
     duplicates |-> DuplicatesCheck(df)]

\* DataLoader.load(): the exception raised, "" when it returns.
LoadExc == IF DATA_PATH \in DOMAIN fs THEN "" ELSE "FileNotFoundError"

load ==
    /\ loader_df' = IF LoadExc = "" THEN fs[DATA_PATH] ELSE loader_df
    /\ last' = Call("load", "", NaN, "", LoadExc)
    /\ UNCHANGED validation_results

\* DataLoader.validate_structure()
ValidateExc == IF loader_df = None THEN "ValueError" ELSE ""

validate_structure ==
    /\ validation_results' =
          IF ValidateExc = "" THEN ValidationReport(loader_df)
          ELSE validation_results
    /\ last' = Call("validate_structure", "", NaN, "", ValidateExc)
    /\ UNCHANGED loader_df

\* main.py line 57: every check is PASS or WARN.
AllPassed(results) ==
    \A k \in DOMAIN results : results[k].status \in {"PASS", "WARN"}

\* ------------------------------------------------------ column statistics
\* The non-null cells of a column (pandas and scikit-learn skip NaN).
DropNa(col) == SelectSeq(col, LAMBDA v : ~IsNaN(v))

RECURSIVE RSum(_)
RSum(col) == IF col = <<>> THEN R(0) ELSE RAdd(Head(col), RSum(Tail(col)))

Mean(col) == RDiv(RSum(DropNa(col)), R(Len(DropNa(col))))

SquaredDeviations(col) ==
    LET v == DropNa(col)
        m == Mean(col)
    IN  RSum([i \in 1..Len(v) |-> RMul(RSub(v[i], m), RSub(v[i], m))])

\* Variance with ddof degrees of freedom removed; NaN when none are left.
Variance(col, ddof) ==
    IF Len(DropNa(col)) <= ddof THEN NaN
    ELSE RDiv(SquaredDeviations(col), R(Len(DropNa(col)) - ddof))

RECURSIVE Insert(_, _)
Insert(v, sorted) ==
    IF sorted = <<>> THEN <<v>>
    ELSE IF RLt(Head(sorted), v) THEN <<Head(sorted)>> \o Insert(v, Tail(sorted))
    ELSE <<v>> \o sorted

RECURSIVE Sorted(_)
Sorted(col) == IF col = <<>> THEN <<>> ELSE Insert(Head(col), Sorted(Tail(col)))

\* Series.quantile(q) / np.nanpercentile, linear interpolation; q = qn / qd.
Quantile(col, qn, qd) ==
    LET v == Sorted(DropNa(col))
        n == Len(v)
    IN  IF n = 0 THEN NaN
        ELSE LET lo == ((n - 1) * qn) \div qd
                 frac == Rat((n - 1) * qn - lo * qd, qd)
             IN  IF frac[1] = 0 THEN v[lo + 1]
                 ELSE RAdd(v[lo + 1], RMul(frac, RSub(v[lo + 2], v[lo + 1])))

Min(col) == IF DropNa(col) = <<>> THEN NaN ELSE Sorted(DropNa(col))[1]

Max(col) == IF DropNa(col) = <<>> THEN NaN
            ELSE Sorted(DropNa(col))[Len(DropNa(col))]

\* sklearn's _handle_zeros_in_scale: a zero scale becomes 1.
HandleZeros(s) == IF ~IsNaN(s) /\ s[1] = 0 THEN R(1) ELSE s

\* -------------------------------------------------------- DataTransformer
IQR_DEFAULT == <<3, 2>>

\* IqrOutliers with the fences drawn in by the threshold: Q1 - IQR /
\* threshold and Q3 + IQR / threshold.
IqrOutliersNarrowing(col, threshold) ==
    LET Q1 == Quantile(col, 1, 4)
        Q3 == Quantile(col, 3, 4)
        IQR == RSub(Q3, Q1)
        lower_bound == RSub(Q1, RDiv(IQR, threshold))
        upper_bound == RAdd(Q3, RDiv(IQR, threshold))
    IN  {i \in 1..Len(col) : RLt(col[i], lower_bound) \/ RGt(col[i], upper_bound)}

\* Rows of `col` the IQR rule flags (transform_data.py lines 43-50).
IqrOutliers(col, threshold) ==
    LET Q1 == Quantile(col, 1, 4)
        Q3 == Quantile(col, 3, 4)
        IQR == RSub(Q3, Q1)
        lower_bound == RSub(Q1, RMul(threshold, IQR))
        upper_bound == RAdd(Q3, RMul(threshold, IQR))
    IN  {i \in 1..Len(col) : RLt(col[i], lower_bound) \/ RGt(col[i], upper_bound)}

\* Rows whose |x - mean| / std exceeds the threshold, std being pandas'
\* sample standard deviation (lines 53-55); compared by squares.
ZscoreOutliers(col, threshold) ==
    LET m == Mean(col)
        var == Variance(col, 1)
    IN  {i \in 1..Len(col) :
            /\ ~IsNaN(var) /\ var[1] # 0
            /\ RGt(RDiv(RMul(RSub(col[i], m), RSub(col[i], m)), var),
                   RMul(threshold, threshold))}

OutlierCount(df, feature, method, threshold) ==
    IF method = "iqr"
    THEN Cardinality(IqrOutliers(Column(df, feature), threshold))
    ELSE Cardinality(ZscoreOutliers(Column(df, feature), threshold))

\* The exception detect_outliers ends with, "" when it returns: no branch
\* binds `outliers` for an unknown method (line 58), and the percentage
\* divides by the number of rows (line 59).
DetectExc(df, method) ==
    IF method \notin {"iqr", "zscore"} THEN "UnboundLocalError"
    ELSE IF Len0(df) = 0 THEN "ZeroDivisionError"
    ELSE ""

OutlierRecord(df, method, threshold, timestamp) ==
    [timestamp |-> timestamp, operation |-> "outlier_detection",
     method |-> method, threshold |-> threshold,
     results |-> [f \in Features |-> OutlierCount(df, f, method, threshold)]]

\* detect_outliers that also drops the rows it flags from self.df.
detect_outliers_dropping(method, threshold) ==
    LET ok == DetectExc(t_df, method) = ""
        flagged == UNION {IF method = "iqr"
                          THEN IqrOutliers(Column(t_df, f), threshold)
                          ELSE ZscoreOutliers(Column(t_df, f), threshold) :
                              f \in Features}
        kept == SelectSeq([i \in 1..Len(t_df.rows) |-> i],
                          LAMBDA i : i \notin flagged)
    IN  /\ t_df' = IF ok
                   THEN [t_df EXCEPT !.rows =
                            [k \in 1..Len(kept) |-> t_df.rows[kept[k]]]]
                   ELSE t_df
        /\ transformation_log' =
              IF ok
              THEN Append(transformation_log,
                          OutlierRecord(t_df, method, threshold, now))
              ELSE transformation_log
        /\ now' = IF ok THEN now + 1 ELSE now
        /\ last' = Call("detect_outliers", method, threshold, "",
                        DetectExc(t_df, method))
        /\ UNCHANGED <<df_transformed, df_normalized>>

detect_outliers(method, threshold) ==
    /\ transformation_log' =
          IF DetectExc(t_df, method) = ""
          THEN Append(transformation_log,
                      OutlierRecord(t_df, method, threshold, now))
          ELSE transformation_log
    /\ now' = IF DetectExc(t_df, method) = "" THEN now + 1 ELSE now
    /\ last' = Call("detect_outliers", method, threshold, "",
                    DetectExc(t_df, method))
    /\ UNCHANGED <<t_df, df_transformed, df_normalized>>

\* StandardParams with the sample standard deviation (ddof = 1) recorded in
\* place of the scaler's own scale_.
StandardParamsSampleStd(col) ==
    LET var == HandleZeros(Variance(col, 1))
    IN  [mean |-> Mean(col), std |-> <<1, var[1], var[2]>>]

\* StandardScaler: mean_ and scale_ (population standard deviation).
StandardParams(col) ==
    LET var == HandleZeros(Variance(col, 0))
    IN  [mean |-> Mean(col), std |-> <<1, var[1], var[2]>>]

\* MinMaxScaler: data_min_ and data_max_.
MinMaxParams(col) == [min |-> Min(col), max |-> Max(col)]

\* RobustScaler: center_ (median) and scale_ (inter-quartile range).
RobustParams(col) ==
    [center |-> Quantile(col, 1, 2),
     scale |-> HandleZeros(RSub(Quantile(col, 3, 4), Quantile(col, 1, 4)))]

ScalingParams(df, method) ==
    [f \in Features |->
        CASE method = "standard" -> StandardParams(Column(df, f))
          [] method = "minmax" -> MinMaxParams(Column(df, f))
          [] OTHER -> RobustParams(Column(df, f))]

\* fit_transform of one column: the scaled cells.
StandardScale(col) ==
    LET m == Mean(col)
        var == HandleZeros(Variance(col, 0))
    IN  [i \in 1..Len(col) |-> Root(RSub(col[i], m), var)]

MinMaxScale(col) ==
    LET lo == Min(col)
        range == HandleZeros(RSub(Max(col), Min(col)))
    IN  [i \in 1..Len(col) |-> Root(RSub(col[i], lo), RMul(range, range))]

RobustScale(col) ==
    LET center == Quantile(col, 1, 2)
        scale == HandleZeros(RSub(Quantile(col, 3, 4), Quantile(col, 1, 4)))
    IN  [i \in 1..Len(col) |-> Root(RSub(col[i], center), RMul(scale, scale))]

ScaleColumn(col, method) ==
    CASE method = "standard" -> StandardScale(col)
      [] method = "minmax" -> MinMaxScale(col)
      [] OTHER -> RobustScale(col)

\* df with the scale set replaced by its scaled values (lines 82, 101, 120).
Scaled(df, method) ==
    [columns |-> df.columns,
     dtypes |-> [c \in df.columns |->
                    IF c \in Features THEN "float64" ELSE df.dtypes[c]],
     rows |-> [i \in 1..Len(df.rows) |->
                 [c \in DOMAIN df.rows[i] |->
                    IF c \in Features
                    THEN ScaleColumn(Column(df, c), method)[i]
                    ELSE df.rows[i][c]]]]

Methods == {"standard", "minmax", "robust"}

\* The exception normalize_features ends with: the scalers refuse an empty
\* table, and no branch binds `scaling_params` for an unknown method (line 141).
NormalizeExc(df, method) ==
    IF method \notin Methods THEN "UnboundLocalError"
    ELSE IF Len0(df) = 0 THEN "ValueError"
    ELSE ""

NormalizationRecord(df, method, timestamp) ==
    [timestamp |-> timestamp, operation |-> "normalization",
     method |-> method, features |-> CONTINUOUS_FEATURES,
     parameters |-> ScalingParams(df, method)]

normalize_features(method) ==
    /\ df_transformed' =
          IF NormalizeExc(t_df, method) = "" THEN Scaled(t_df, method)
          ELSE t_df
    /\ transformation_log' =
          IF NormalizeExc(t_df, method) = ""
          THEN Append(transformation_log,
                      NormalizationRecord(t_df, method, now))
          ELSE transformation_log
    /\ now' = IF NormalizeExc(t_df, method) = "" THEN now + 1 ELSE now
    /\ df_normalized' =
          IF NormalizeExc(t_df, method) = ""
          THEN [shared |-> TRUE, df |-> Scaled(t_df, method)]
          ELSE IF df_normalized = None THEN None
          ELSE [shared |-> FALSE, df |-> df_normalized.df]
    /\ last' = Call("normalize_features", method, NaN, "",
                    NormalizeExc(t_df, method))
    /\ UNCHANGED t_df

\* pd.cut(bins=[0, 100, 200, inf], labels=[Low, Medium, High]): the bins are
\* open on the left and closed on the right; a value in no bin is NaN.
ToolWearCategory(w) ==
    IF RGt(w, R(0)) /\ ~RGt(w, R(100)) THEN "Low"
    ELSE IF RGt(w, R(100)) /\ ~RGt(w, R(200)) THEN "Medium"
    ELSE IF RGt(w, R(200)) THEN "High"
    ELSE NullString

DERIVED_FEATURES == <<"Temp_Difference", "Power_Estimate", "Tool_Wear_Category">>

Derived == {DERIVED_FEATURES[i] : i \in DOMAIN DERIVED_FEATURES}

\* The derived cells of row i, computed from self.df (lines 156-173);
\* Power_Estimate in units of pi: torque * rpm * 2 / 60.
DerivedCell(df, i, c) ==
    CASE c = "Temp_Difference" ->
            RSub(df.rows[i]["Process temperature [K]"],
                 df.rows[i]["Air temperature [K]"])
      [] c = "Power_Estimate" ->
            RDiv(RMul(RMul(df.rows[i]["Torque [Nm]"],
                           df.rows[i]["Rotational speed [rpm]"]), R(2)), R(60))
      [] OTHER -> ToolWearCategory(df.rows[i]["Tool wear [min]"])

\* WithDerived that starts from the original table whatever the target:
\* the scaled columns are put back to their original values.
WithDerivedOnOriginal(df, target) ==
    [columns |-> df.columns \cup Derived,
     dtypes |-> [c \in df.columns \cup Derived |->
                    IF c = "Tool_Wear_Category" THEN "category"
                    ELSE IF c \in Derived THEN "float64"
                    ELSE df.dtypes[c]],
     rows |-> [i \in 1..Len(df.rows) |->
                 [c \in (DOMAIN df.rows[i]) \cup Derived |->
                    IF c \in Derived THEN DerivedCell(df, i, c)
                    ELSE df.rows[i][c]]]]

WithDerived(df, target) ==
    [columns |-> target.columns \cup Derived,
     dtypes |-> [c \in target.columns \cup Derived |->
                    IF c = "Tool_Wear_Category" THEN "category"
                    ELSE IF c \in Derived THEN "float64"
                    ELSE target.dtypes[c]],
     rows |-> [i \in 1..Len(target.rows) |->
                 [c \in (DOMAIN target.rows[i]) \cup Derived |->
                    IF c \in Derived THEN DerivedCell(df, i, c)
                    ELSE target.rows[i][c]]]]

FeatureRecord(timestamp) ==
    [timestamp |-> timestamp, operation |-> "feature_engineering",
     derived_features |-> DERIVED_FEATURES,
     description |->
        "Added temperature difference, power estimate, and tool wear category"]

\* What a reference held by the caller shows after self.df_transformed was
\* assigned to in place: the new content when it is that same object.
InPlace(reference, content) ==
    IF reference # None /\ reference.shared
    THEN [shared |-> TRUE, df |-> content]
    ELSE reference

\* compute_derived_features without the append of lines 177-182.
compute_derived_features_unlogged ==
    /\ df_transformed' =
          WithDerived(t_df, IF df_transformed = None THEN t_df
                            ELSE df_transformed)
    /\ df_normalized' = InPlace(df_normalized, df_transformed')
    /\ now' = now + 1
    /\ last' = Call("compute_derived_features", "", NaN, "", "")
    /\ UNCHANGED <<t_df, transformation_log>>

compute_derived_features ==
    /\ df_transformed' =
          WithDerived(t_df, IF df_transformed = None THEN t_df
                            ELSE df_transformed)
    /\ df_normalized' = InPlace(df_normalized, df_transformed')
    /\ transformation_log' = Append(transformation_log, FeatureRecord(now))
    /\ now' = now + 1
    /\ last' = Call("compute_derived_features", "", NaN, "", "")
    /\ UNCHANGED t_df

\* ----------------------------------------------------------- DataExporter
\* File content is a sequence of bytes.  The serializers lay out the cells
\* of the table; a cell is written as the bytes of its components.
OUTPUT_DIR == "output"

METADATA_DIR == "metadata"

CSV_NAME == "AI4I_2020_curated.csv"

JSON_NAME == "AI4I_2020_curated.json"

PARQUET_NAME == "AI4I_2020_curated.parquet"

CellOrder ==
    CONTINUOUS_FEATURES \o <<"Type">> \o DERIVED_FEATURES

StrByte(v) ==
    CASE v = "L" -> 76 [] v = "M" -> 77 [] v = "H" -> 72
      [] v = "Low" -> 108 [] v = "Medium" -> 109 [] v = "High" -> 104
      [] OTHER -> 0

CellBytes(c, v) ==
    IF c \in StringColumns THEN <<StrByte(v)>>
    ELSE [k \in 1..Len(v) |-> Abs(v[k]) % 256]

RECURSIVE Concat(_)
Concat(ss) == IF ss = <<>> THEN <<>> ELSE Head(ss) \o Concat(Tail(ss))

\* The columns of a row that hold cells, in column order.
RowColumns(df) ==
    SelectSeq(CellOrder, LAMBDA c : c \in df.columns)

RowBytes(df, i) ==
    Concat([k \in 1..Len(RowColumns(df)) |->
              CellBytes(RowColumns(df)[k], df.rows[i][RowColumns(df)[k]])])

ColumnBytes(df, c) ==
    Concat([i \in 1..Len(df.rows) |-> CellBytes(c, df.rows[i][c])])

\* DataFrame.to_csv(index=include_index): a header line, then one line per
\* row, led by the row's index when asked for.
ToCsv(df, include_index) ==
    <<Cardinality(df.columns) + (IF include_index THEN 1 ELSE 0), 10>>
    \o Concat([i \in 1..Len(df.rows) |->
                 (IF include_index THEN <<i - 1, 44>> ELSE <<>>)
                 \o RowBytes(df, i) \o <<10>>])

\* DataFrame.to_json(orient): row by row for "records", column by column
\* otherwise.
ToJson(df, orient) ==
    IF orient = "records"
    THEN <<91>> \o Concat([i \in 1..Len(df.rows) |->
                             <<123>> \o RowBytes(df, i) \o <<125>>]) \o <<93>>
    ELSE <<123>> \o Concat([k \in 1..Len(RowColumns(df)) |->
                              <<34>> \o ColumnBytes(df, RowColumns(df)[k])])
         \o <<125>>

\* DataFrame.to_parquet(compression, index=False): columnar, the codec named
\* in the file.
ToParquet(df, compression) ==
    <<80, 65, 82, IF compression = "snappy" THEN 1 ELSE 2>>
    \o Concat([k \in 1..Len(RowColumns(df)) |->
                 ColumnBytes(df, RowColumns(df)[k])])
    \o <<80, 65, 82>>

\* f.read(4096)
CHUNK_SIZE == 4096

\* hash_func.update(chunk): the digest state after one more chunk, byte by
\* byte from the first to the last (the chunk is split in halves, the first
\* half absorbed before the second).
RECURSIVE HashUpdate(_, _)
HashUpdate(h, chunk) ==
    IF Len(chunk) = 0 THEN h
    ELSE IF Len(chunk) = 1 THEN (h * 31 + chunk[1] + 1) % 65521
    ELSE LET half == Len(chunk) \div 2
             h1 == HashUpdate(h, SubSeq(chunk, 1, half))
         IN  IF h1 >= 0 THEN HashUpdate(h1, SubSeq(chunk, half + 1, Len(chunk)))
             ELSE h1

RECURSIVE HashChunks(_, _)
HashChunks(h, bytes) ==
    IF bytes = <<>> THEN h
    ELSE IF Len(bytes) <= CHUNK_SIZE THEN HashUpdate(h, bytes)
    ELSE HashChunks(HashUpdate(h, SubSeq(bytes, 1, CHUNK_SIZE)),
                    SubSeq(bytes, CHUNK_SIZE + 1, Len(bytes)))

\* DataExporter.calculate_checksum: the digest of the bytes now at the path.
calculate_checksum(files, file_path) == HashChunks(7, files[file_path])

\* round(st_size / 1024 ** 2, 2), in hundredths of a megabyte.
SizeMb(bytes) == Rat((Len(bytes) * 100 + 524288) \div 1048576, 100)

OutputPath(filename) == <<OUTPUT_DIR, filename>>

\* An export either writes its file or is refused by the file system.
IoOutcomes == {"", "OSError"}

Bool(b) == IF b THEN "True" ELSE "False"

CsvEntry(files, filename, timestamp) ==
    [timestamp |-> timestamp, format |-> "CSV", filename |-> filename,
     path |-> OutputPath(filename), rows |-> Len0(e_df),
     columns |-> Cardinality(e_df.columns),
     size_mb |-> SizeMb(files[OutputPath(filename)]),
     checksum_sha256 |-> calculate_checksum(files, OutputPath(filename))]

export_csv(filename, include_index, io) ==
    LET written == (OutputPath(filename) :> ToCsv(e_df, include_index)) @@ fs
    IN  /\ fs' = IF io = "" THEN written ELSE fs
        /\ export_log' =
              IF io = "" THEN Append(export_log, CsvEntry(written, filename, now))
              ELSE export_log
        /\ now' = IF io = "" THEN now + 1 ELSE now
        /\ last' = Call("export_csv", Bool(include_index), NaN, filename, io)
        /\ UNCHANGED e_df

JsonEntry(files, filename, orient, timestamp) ==
    [timestamp |-> timestamp, format |-> "JSON", filename |-> filename,
     path |-> OutputPath(filename), orient |-> orient, rows |-> Len0(e_df),
     size_mb |-> SizeMb(files[OutputPath(filename)]),
     checksum_sha256 |-> calculate_checksum(files, OutputPath(filename))]

export_json(filename, orient, io) ==
    LET written == (OutputPath(filename) :> ToJson(e_df, orient)) @@ fs
    IN  /\ fs' = IF io = "" THEN written ELSE fs
        /\ export_log' =
              IF io = ""
              THEN Append(export_log, JsonEntry(written, filename, orient, now))
              ELSE export_log
        /\ now' = IF io = "" THEN now + 1 ELSE now
        /\ last' = Call("export_json", orient, NaN, filename, io)
        /\ UNCHANGED e_df

ParquetEntry(files, filename, compression, timestamp) ==
    [timestamp |-> timestamp, format |-> "Parquet", filename |-> filename,
     path |-> OutputPath(filename), compression |-> compression,
     rows |-> Len0(e_df),
     size_mb |-> SizeMb(files[OutputPath(filename)]),
     checksum_sha256 |-> calculate_checksum(files, OutputPath(filename))]

\* How export_parquet ends: "" with the path returned, "skipped" with None
\* returned after the ImportError it catches, or the exception it lets out.
ParquetOutcome(io) == IF ~pyarrow THEN "skipped" ELSE io

export_parquet(filename, compression, io) ==
    LET written == (OutputPath(filename) :> ToParquet(e_df, compression)) @@ fs
        ok == ParquetOutcome(io) = ""
    IN  /\ fs' = IF ok THEN written ELSE fs
        /\ export_log' =
              IF ok
              THEN Append(export_log,
                          ParquetEntry(written, filename, compression, now))
              ELSE export_log
        /\ now' = IF ok THEN now + 1 ELSE now
        /\ last' = Call("export_parquet", compression, NaN, filename,
                        ParquetOutcome(io))
        /\ UNCHANGED e_df

HasCells(c) == c \in CellColumns \cup Derived

\* The per-column entry of the data dictionary (lines 135-140); a column
\* without modelled cells is complete and constant.
DictEntry(df, c) ==
    LET nulls == IF HasCells(c)
                 THEN Cardinality({i \in 1..Len(df.rows) :
                                      IsNull(c, df.rows[i][c])})
                 ELSE 0
        values == IF HasCells(c)
                  THEN {df.rows[i][c] : i \in {k \in 1..Len(df.rows) :
                                                  ~IsNull(c, df.rows[k][c])}}
                  ELSE {}
    IN  [dtype |-> df.dtypes[c],
         non_null_count |-> Len(df.rows) - nulls,
         null_count |-> nulls,
         unique_values |->
            IF HasCells(c) THEN Cardinality(values)
            ELSE IF Len(df.rows) = 0 THEN 0 ELSE 1]

DataDictionary(df) == [c \in df.columns |-> DictEntry(df, c)]

export_data_dictionary(filename, io) ==
    /\ fs' = IF io = "" THEN (OutputPath(filename) :> DataDictionary(e_df)) @@ fs
             ELSE fs
    /\ last' = Call("export_data_dictionary", "", NaN, filename, io)
    /\ UNCHANGED <<e_df, export_log, now>>

\* describe() of the numeric columns: the columns summarized and their count.
SummaryStatistics(df) ==
    [c \in {k \in df.columns : df.dtypes[k] \in {"int64", "float64"}} |->
        [count |-> DictEntry(df, c).non_null_count]]

export_summary_statistics(filename, io) ==
    /\ fs' = IF io = ""
             THEN (OutputPath(filename) :> SummaryStatistics(e_df)) @@ fs
             ELSE fs
    /\ last' = Call("export_summary_statistics", "", NaN, filename, io)
    /\ UNCHANGED <<e_df, export_log, now>>

\* json.dump(self.export_log): the file holds the log as it is now.
save_export_log(filename, io) ==
    /\ fs' = IF io = "" THEN (OutputPath(filename) :> export_log) @@ fs ELSE fs
    /\ last' = Call("save_export_log", "", NaN, filename, io)
    /\ UNCHANGED <<e_df, export_log, now>>

\* DataTransformer.save_transformation_log
TLOG_PATH == <<METADATA_DIR, "transformation_log.json">>

save_transformation_log(io) ==
    /\ fs' = IF io = "" THEN (TLOG_PATH :> transformation_log) @@ fs ELSE fs
    /\ last' = Call("save_transformation_log", "", NaN,
                    "transformation_log.json", io)
    /\ UNCHANGED <<t_df, df_transformed, df_normalized, transformation_log,
                   now>>

\* ------------------------------------------------------- ProvenanceLogger
PROJECT_NAME == "AI4I_2020_Curation"

\* ProvenanceLogger.__init__
NewProvenanceRecord(project_name, timestamp) ==
    [project_name |-> project_name, creation_timestamp |-> timestamp,
     dataset_source |-> None, curation_workflow |-> <<>>,
     system_environment |-> None, data_transformations |-> <<>>,
     quality_checks |-> <<>>, exports |-> <<>>]

\* record[key] = value, the key added when new.
SetKey(record, key, value) == (key :> value) @@ record

log_dataset_source(source_info) ==
    /\ provenance_record' =
          SetKey(provenance_record, "dataset_source",
                 ("logged_at" :> now) @@ source_info)
    /\ now' = now + 1
    /\ last' = Call("log_dataset_source", "", NaN, "", "")

log_workflow_step(step_name, description, parameters, status) ==
    /\ provenance_record' =
          SetKey(provenance_record, "curation_workflow",
                 Append(provenance_record.curation_workflow,
                        [step_name |-> step_name, description |-> description,
                         timestamp |-> now, status |-> status,
                         parameters |-> parameters]))
    /\ now' = now + 1
    /\ last' = Call("log_workflow_step", step_name, NaN, "", "")

log_transformation(transformation_type, details) ==
    /\ provenance_record' =
          SetKey(provenance_record, "data_transformations",
                 Append(provenance_record.data_transformations,
                        [type |-> transformation_type, timestamp |-> now,
                         details |-> details]))
    /\ now' = now + 1
    /\ last' = Call("log_transformation", transformation_type, NaN, "", "")

log_quality_check(check_name, results, passed) ==
    /\ provenance_record' =
          SetKey(provenance_record, "quality_checks",
                 Append(provenance_record.quality_checks,
                        [check_name |-> check_name, timestamp |-> now,
                         passed |-> passed, results |-> results]))
    /\ now' = now + 1
    /\ last' = Call("log_quality_check", check_name, NaN, "", "")

log_export(export_info) ==
    /\ provenance_record' =
          SetKey(provenance_record, "exports",
                 Append(provenance_record.exports,
                        ("logged_at" :> now) @@ export_info))
    /\ now' = now + 1
    /\ last' = Call("log_export", "", NaN, "", "")

capture_system_environment ==
    /\ provenance_record' =
          SetKey(provenance_record, "system_environment",
                 [captured_at |-> now, python_version |-> "sys.version",
                  platform |-> "platform.platform()",
                  machine |-> "platform.machine()",
                  processor |-> "platform.processor()",
                  python_implementation |-> "platform.python_implementation()",
                  packages |-> {"pandas", "numpy", "scikit-learn"}])
    /\ now' = now + 1
    /\ last' = Call("capture_system_environment", "", NaN, "", "")

add_curator_info(curator_name, institution, contact) ==
    /\ provenance_record' =
          SetKey(provenance_record, "curator",
                 [name |-> curator_name, institution |-> institution,
                  contact |-> contact, added_at |-> now])
    /\ now' = now + 1
    /\ last' = Call("add_curator_info", curator_name, NaN, "", "")

add_notes(note_text, category) ==
    LET notes == IF "notes" \in DOMAIN provenance_record
                 THEN provenance_record.notes ELSE <<>>
    IN  /\ provenance_record' =
              SetKey(provenance_record, "notes",
                     Append(notes, [timestamp |-> now, category |-> category,
                                    text |-> note_text]))
        /\ now' = now + 1
        /\ last' = Call("add_notes", category, NaN, "", "")

\* The sections generate_provenance_summary renders.
ProvenanceSummary(record) ==
    [project |-> record.project_name, created |-> record.creation_timestamp,
     source |-> record.dataset_source,
     curator |-> IF "curator" \in DOMAIN record THEN record.curator ELSE None,
     workflow |-> [i \in 1..Len(record.curation_workflow) |->
                     <<record.curation_workflow[i].step_name,
                       record.curation_workflow[i].status>>],
     transformations |-> [i \in 1..Len(record.data_transformations) |->
                            record.data_transformations[i].type],
     passed |-> Cardinality({i \in 1..Len(record.quality_checks) :
                                record.quality_checks[i].passed}),
     checks |-> Len(record.quality_checks),
     exports |-> [i \in 1..Len(record.exports) |-> record.exports[i].format]]

PROVENANCE_PATH == <<METADATA_DIR, "provenance_record.json">>

PROVENANCE_TEXT_PATH == <<"docs", "provenance.txt">>

\* save_provenance_record that leaves a file already at the path as it is.
save_provenance_record_once(output_path, io) ==
    /\ fs' = IF io = "" /\ output_path \notin DOMAIN fs
             THEN (output_path :> provenance_record) @@ fs ELSE fs
    /\ last' = Call("save_provenance_record", "", NaN, output_path[2], io)
    /\ UNCHANGED <<provenance_record, now>>

\* json.dump(self.provenance_record): the file holds the record as it is now.
save_provenance_record(output_path, io) ==
    /\ fs' = IF io = "" THEN (output_path :> provenance_record) @@ fs ELSE fs
    /\ last' = Call("save_provenance_record", "", NaN, output_path[2], io)
    /\ UNCHANGED <<provenance_record, now>>

save_provenance_text(output_path, io) ==
    /\ fs' = IF io = ""
             THEN (output_path :> ProvenanceSummary(provenance_record)) @@ fs
             ELSE fs
    /\ last' = Call("save_provenance_text", "", NaN, output_path[2], io)
    /\ UNCHANGED <<provenance_record, now>>

\* A file system holding no file.
NoFiles == [path \in {} |-> <<>>]

\* ----------------------------------------------------------------- main()
loaderVars == <<loader_df, validation_results>>

transformerVars == <<t_df, df_transformed, df_normalized, transformation_log>>

exporterVars == <<e_df, export_log>>

\* An exception leaves the try block for a handler that returns 1.
Advance(exc, next) ==
    IF exc = "" THEN pc' = next /\ rc' = rc ELSE pc' = "done" /\ rc' = 1

M_Load ==
    /\ pc = "load"
    /\ load
    /\ Advance(last'.exc, "validate")
    /\ UNCHANGED <<fs, pyarrow, now, transformerVars, exporterVars,
                   provenance_record, calls>>

M_Validate ==
    /\ pc = "validate"
    /\ validate_structure
    /\ Advance(last'.exc, "check")
    /\ UNCHANGED <<fs, pyarrow, now, transformerVars, exporterVars,
                   provenance_record, calls>>

\* Lines 57-63: a check that is neither PASS nor WARN ends the run.
M_Check ==
    /\ pc = "check"
    /\ IF AllPassed(validation_results)
       THEN pc' = "new_transformer" /\ rc' = rc
       ELSE pc' = "done" /\ rc' = 1
    /\ UNCHANGED <<fs, pyarrow, now, loaderVars, transformerVars,
                   exporterVars, provenance_record, calls, last>>

\* DataTransformer(df): self.df = df.copy()
M_NewTransformer ==
    /\ pc = "new_transformer"
    /\ t_df' = loader_df
    /\ df_transformed' = None
    /\ df_normalized' = None
    /\ transformation_log' = <<>>
    /\ pc' = "detect_outliers"
    /\ UNCHANGED <<fs, pyarrow, now, loaderVars, exporterVars,
                   provenance_record, rc, calls, last>>

M_Detect ==
    /\ pc = "detect_outliers"
    /\ detect_outliers("iqr", IQR_DEFAULT)
    /\ Advance(last'.exc, "normalize_features")
    /\ UNCHANGED <<fs, pyarrow, loaderVars, exporterVars, provenance_record,
                   calls>>

M_Normalize ==
    /\ pc = "normalize_features"
    /\ normalize_features("standard")
    /\ Advance(last'.exc, "compute_derived_features")
    /\ UNCHANGED <<fs, pyarrow, loaderVars, exporterVars, provenance_record,
                   calls>>

M_Derive ==
    /\ pc = "compute_derived_features"
    /\ compute_derived_features
    /\ Advance(last'.exc, "save_transformation_log")
    /\ UNCHANGED <<fs, pyarrow, loaderVars, exporterVars, provenance_record,
                   calls>>

\* M_SaveTransformationLog with the write left out: the orchestrator goes
\* on to the exports without the transformation log on disk.
M_SaveTransformationLogSkipped ==
    /\ pc = "save_transformation_log"
    /\ pc' = "new_exporter"
    /\ last' = Call("save_transformation_log", "", NaN,
                    "transformation_log.json", "")
    /\ UNCHANGED <<fs, pyarrow, now, loaderVars, transformerVars,
                   exporterVars, provenance_record, rc, calls>>

M_SaveTransformationLog ==
    /\ pc = "save_transformation_log"
    /\ \E io \in IoOutcomes : save_transformation_log(io)
    /\ Advance(last'.exc, "new_exporter")
    /\ UNCHANGED <<pyarrow, loaderVars, exporterVars, provenance_record, calls>>

\* DataExporter(df_enhanced, output_dir)
M_NewExporter ==
    /\ pc = "new_exporter"
    /\ e_df' = df_transformed
    /\ export_log' = <<>>
    /\ pc' = "export_csv"
    /\ UNCHANGED <<fs, pyarrow, now, loaderVars, transformerVars,
                   provenance_record, rc, calls, last>>

M_ExportCsv ==
    /\ pc = "export_csv"
    /\ \E io \in IoOutcomes : export_csv(CSV_NAME, FALSE, io)
    /\ Advance(last'.exc, "export_json")
    /\ UNCHANGED <<pyarrow, loaderVars, transformerVars, provenance_record,
                   calls>>

M_ExportJson ==
    /\ pc = "export_json"
    /\ \E io \in IoOutcomes : export_json(JSON_NAME, "records", io)
    /\ Advance(last'.exc, "export_parquet")
    /\ UNCHANGED <<pyarrow, loaderVars, transformerVars, provenance_record,
                   calls>>

\* Lines 92-95: export_parquet returns None when it is skipped.
M_ExportParquet ==
    /\ pc = "export_parquet"
    /\ \E io \in IoOutcomes :
          export_parquet(PARQUET_NAME, "snappy", io)
    /\ Advance(IF last'.exc = "skipped" THEN "" ELSE last'.exc,
               "export_data_dictionary")
    /\ UNCHANGED <<pyarrow, loaderVars, transformerVars, provenance_record,
                   calls>>

M_ExportDataDictionary ==
    /\ pc = "export_data_dictionary"
    /\ \E io \in IoOutcomes : export_data_dictionary("data_dictionary.json", io)
    /\ Advance(last'.exc, "export_summary_statistics")
    /\ UNCHANGED <<pyarrow, loaderVars, transformerVars, provenance_record,
                   calls>>

M_ExportSummaryStatistics ==
    /\ pc = "export_summary_statistics"
    /\ \E io \in IoOutcomes :
          export_summary_statistics("summary_statistics.csv", io)
    /\ Advance(last'.exc, "save_export_log")
    /\ UNCHANGED <<pyarrow, loaderVars, transformerVars, provenance_record,
                   calls>>

M_SaveExportLog ==
    /\ pc = "save_export_log"
    /\ \E io \in IoOutcomes : save_export_log("export_log.json", io)
    /\ Advance(last'.exc, "new_provenance")
    /\ UNCHANGED <<pyarrow, loaderVars, transformerVars, provenance_record,
                   calls>>

provenanceFrame == <<fs, pyarrow, loaderVars, transformerVars, exporterVars,
                     rc, calls>>

\* ProvenanceLogger("AI4I_2020_Curation")
M_NewProvenance ==
    /\ pc = "new_provenance"
    /\ provenance_record' = NewProvenanceRecord(PROJECT_NAME, now)
    /\ now' = now + 1
    /\ pc' = "log_dataset_source"
    /\ UNCHANGED <<provenanceFrame, last>>

SOURCE_INFO ==
    [title |-> "AI4I 2020 Predictive Maintenance Dataset",
     source_url |-> "https://archive.ics.uci.edu/dataset/601",
     doi |-> "10.24432/C5HS5C", acquisition_date |-> "2025-09-28",
     license |-> "CC BY 4.0", original_authors |-> "Stephan Matzka"]

M_LogDatasetSource ==
    /\ pc = "log_dataset_source"
    /\ log_dataset_source(SOURCE_INFO)
    /\ pc' = "add_curator_info"
    /\ UNCHANGED provenanceFrame

M_AddCuratorInfo ==
    /\ pc = "add_curator_info"
    /\ add_curator_info("Hard Shah", "University of Illinois Urbana-Champaign",
                        "hardshah@example.edu")
    /\ pc' = "capture_system_environment"
    /\ UNCHANGED provenanceFrame

M_CaptureEnvironment ==
    /\ pc = "capture_system_environment"
    /\ capture_system_environment
    /\ pc' = "step_data_acquisition"
    /\ UNCHANGED provenanceFrame

M_StepDataAcquisition ==
    /\ pc = "step_data_acquisition"
    /\ log_workflow_step("data_acquisition",
                         "Downloaded dataset from UCI ML Repository",
                         [source |-> "UCI", date |-> "2025-09-28"], "completed")
    /\ pc' = "step_quality_assessment"
    /\ UNCHANGED provenanceFrame

M_StepQualityAssessment ==
    /\ pc = "step_quality_assessment"
    /\ log_workflow_step("quality_assessment",
                         "Performed comprehensive EDA and quality checks",
                         [missing_values |->
                             validation_results.missing_values.total],
                         "completed")
    /\ pc' = "step_transformation"
    /\ UNCHANGED provenanceFrame

M_StepTransformation ==
    /\ pc = "step_transformation"
    /\ log_workflow_step("transformation",
                         "Normalized features using StandardScaler",
                         [method |-> "standard", features_count |-> 5],
                         "completed")
    /\ pc' = "log_transformation"
    /\ UNCHANGED provenanceFrame

\* Lines 153-159: the one transformation main() records.
M_LogTransformation ==
    /\ pc = "log_transformation"
    /\ log_transformation("normalization",
                          [method |-> "StandardScaler",
                           features |-> CONTINUOUS_FEATURES])
    /\ pc' = "check_completeness"
    /\ UNCHANGED provenanceFrame

\* Lines 162-166: the completeness check is recorded with literals.
M_CheckCompleteness ==
    /\ pc = "check_completeness"
    /\ log_quality_check("completeness_check",
                         [missing_values |-> 0,
                          total_records |-> Len0(loader_df)], TRUE)
    /\ pc' = "check_structure"
    /\ UNCHANGED provenanceFrame

M_CheckStructure ==
    /\ pc = "check_structure"
    /\ log_quality_check("structural_validation", validation_results,
                         AllPassed(validation_results))
    /\ pc' = "add_notes"
    /\ UNCHANGED provenanceFrame

M_AddNotes ==
    /\ pc = "add_notes"
    /\ add_notes("Dataset exhibits severe class imbalance (3.39% failure rate).",
                 "data_quality")
    /\ pc' = "save_provenance_record"
    /\ UNCHANGED provenanceFrame

M_SaveProvenanceRecord ==
    /\ pc = "save_provenance_record"
    /\ \E io \in IoOutcomes : save_provenance_record(PROVENANCE_PATH, io)
    /\ Advance(last'.exc, "save_provenance_text")
    /\ UNCHANGED <<pyarrow, loaderVars, transformerVars, exporterVars, calls>>

\* M_SaveProvenanceText with a note recorded after the record was saved.
M_NoteAfterSave ==
    /\ pc = "save_provenance_text"
    /\ add_notes("Recorded after the persist", "general")
    /\ pc' = "done"
    /\ rc' = 0
    /\ UNCHANGED <<fs, pyarrow, loaderVars, transformerVars, exporterVars,
                   calls>>

\* The last call of the try block: main() returns 0 after it.
M_SaveProvenanceText ==
    /\ pc = "save_provenance_text"
    /\ \E io \in IoOutcomes : save_provenance_text(PROVENANCE_TEXT_PATH, io)
    /\ pc' = "done"
    /\ rc' = IF last'.exc = "" THEN 0 ELSE 1
    /\ UNCHANGED <<pyarrow, loaderVars, transformerVars, exporterVars, calls>>

NoCalls == [made |-> 0, ok |-> 0]

\* The environment main() starts in: the input file present or not, a
\* Parquet engine installed or not, no output written yet.
Init ==
    /\ fs \in {NoFiles} \cup {(DATA_PATH :> t) : t \in InputTables}
    /\ pyarrow \in BOOLEAN
    /\ now = 0
    /\ loader_df = None
    /\ validation_results = None
    /\ t_df = None
    /\ df_transformed = None
    /\ df_normalized = None
    /\ transformation_log = <<>>
    /\ e_df = None
    /\ export_log = <<>>
    /\ provenance_record = None
    /\ pc = "load"
    /\ rc = -1
    /\ calls = NoCalls
    /\ last = NoCall

Next ==
    \/ M_Load
    \/ M_Validate
    \/ M_Check
    \/ M_NewTransformer
    \/ M_Detect
    \/ M_Normalize
    \/ M_Derive
    \/ M_SaveTransformationLog
    \/ M_NewExporter
    \/ M_ExportCsv
    \/ M_ExportJson
    \/ M_ExportParquet
    \/ M_ExportDataDictionary
    \/ M_ExportSummaryStatistics
    \/ M_SaveExportLog
    \/ M_NewProvenance
    \/ M_LogDatasetSource
    \/ M_AddCuratorInfo
    \/ M_CaptureEnvironment
    \/ M_StepDataAcquisition
    \/ M_StepQualityAssessment
    \/ M_StepTransformation
    \/ M_LogTransformation
    \/ M_CheckCompleteness
    \/ M_CheckStructure
    \/ M_AddNotes
    \/ M_SaveProvenanceRecord
    \/ M_SaveProvenanceText

Spec == Init /\ [][Next]_vars

\* --------------------------------------------- scripts driving one component
\* Each component is also driven on its own, by a script that makes any
\* calls in any order, as the main() at the foot of its file does.
Count(exc) ==
    calls' = [made |-> calls.made + 1,
              ok |-> calls.ok + (IF exc = "" THEN 1 ELSE 0)]

Idle(position) ==
    /\ now = 0
    /\ loader_df = None
    /\ validation_results = None
    /\ df_transformed = None
    /\ df_normalized = None
    /\ transformation_log = <<>>
    /\ export_log = <<>>
    /\ provenance_record = None
    /\ pc = position
    /\ rc = -1
    /\ calls = NoCalls
    /\ last = NoCall

\* DataLoader(data_path), then load() and validate_structure() in any order.
L_Load ==
    /\ calls.made < MaxCalls
    /\ load
    /\ Count(last'.exc)
    /\ UNCHANGED <<fs, pyarrow, now, transformerVars, exporterVars,
                   provenance_record, pc, rc>>

L_Validate ==
    /\ calls.made < MaxCalls
    /\ validate_structure
    /\ Count(last'.exc)
    /\ UNCHANGED <<fs, pyarrow, now, transformerVars, exporterVars,
                   provenance_record, pc, rc>>

InitLoader ==
    /\ fs \in {NoFiles} \cup {(DATA_PATH :> t) : t \in InputTables}
    /\ pyarrow = TRUE
    /\ t_df = None
    /\ e_df = None
    /\ Idle("DataLoader")

NextLoader == L_Load \/ L_Validate

SpecLoader == InitLoader /\ [][NextLoader]_vars

\* DataTransformer(df), then its three operations in any order, with
\* supported and unsupported method names.
OutlierMethods == {"iqr", "zscore", "mad"}

Thresholds == {<<1, 2>>, <<3, 2>>, <<3, 1>>}

NormalizationMethods == Methods \cup {"l2"}

T_Detect ==
    /\ calls.made < MaxCalls
    /\ \E method \in OutlierMethods, threshold \in Thresholds :
          /\ method = "mad" => threshold = IQR_DEFAULT
          /\ detect_outliers(method, threshold)
    /\ Count(last'.exc)
    /\ UNCHANGED <<fs, pyarrow, loaderVars, exporterVars, provenance_record,
                   pc, rc>>

T_Normalize ==
    /\ calls.made < MaxCalls
    /\ \E method \in NormalizationMethods : normalize_features(method)
    /\ Count(last'.exc)
    /\ UNCHANGED <<fs, pyarrow, loaderVars, exporterVars, provenance_record,
                   pc, rc>>

T_Derive ==
    /\ calls.made < MaxCalls
    /\ compute_derived_features
    /\ Count(last'.exc)
    /\ UNCHANGED <<fs, pyarrow, loaderVars, exporterVars, provenance_record,
                   pc, rc>>

RowList == <<Row(298, 308, 1500, 42, 0, "L"), Row(300, 310, 1400, 40, 100, "M"),
             Row(302, 309, 1600, 50, 200, NullString)>>

\* The tables the transformer script is run on: none to three rows.
TransformTables ==
    { Table({}, {}, {}, SubSeq(RowList, 1, n)) : n \in 0..Len(RowList) }

InitTransformer ==
    /\ fs = NoFiles
    /\ pyarrow = TRUE
    /\ t_df \in TransformTables
    /\ e_df = None
    /\ Idle("DataTransformer")

NextTransformer == T_Detect \/ T_Normalize \/ T_Derive

SpecTransformer == InitTransformer /\ [][NextTransformer]_vars

\* A table of any size, normalized once: the scalers as functions of the
\* table.
N_Normalize ==
    /\ calls.made = 0
    /\ \E method \in Methods : normalize_features(method)
    /\ Count(last'.exc)
    /\ UNCHANGED <<fs, pyarrow, loaderVars, exporterVars, provenance_record,
                   pc, rc>>

InitNormalize ==
    /\ fs = NoFiles
    /\ pyarrow = TRUE
    /\ t_df \in CleanTables
    /\ e_df = None
    /\ Idle("normalize_features")

NextNormalize == N_Normalize

SpecNormalize == InitNormalize /\ [][NextNormalize]_vars

\* DataExporter(df, output_dir), then its exports in any order, to the
\* default file names or over a file already written; the file system
\* accepts every write.
ExportTables ==
    { Table({}, {}, {}, SubSeq(RowList, 1, 1)),
      Table({}, {}, {}, SubSeq(RowList, 1, 2)),
      WithDerived(Table({}, {}, {}, SubSeq(RowList, 1, 2)),
                  Scaled(Table({}, {}, {}, SubSeq(RowList, 1, 2)), "standard")) }

E_ExportCsv ==
    /\ calls.made < MaxCalls
    /\ \E include_index \in BOOLEAN : export_csv(CSV_NAME, include_index, "")
    /\ Count(last'.exc)
    /\ UNCHANGED <<pyarrow, loaderVars, transformerVars, provenance_record,
                   pc, rc>>

E_ExportJson ==
    /\ calls.made < MaxCalls
    /\ \E filename \in {JSON_NAME, CSV_NAME}, orient \in {"records", "columns"} :
          export_json(filename, orient, "")
    /\ Count(last'.exc)
    /\ UNCHANGED <<pyarrow, loaderVars, transformerVars, provenance_record,
                   pc, rc>>

E_ExportParquet ==
    /\ calls.made < MaxCalls
    /\ \E compression \in {"snappy", "gzip"} :
          export_parquet(PARQUET_NAME, compression, "")
    /\ Count(last'.exc)
    /\ UNCHANGED <<pyarrow, loaderVars, transformerVars, provenance_record,
                   pc, rc>>

E_ExportDataDictionary ==
    /\ calls.made < MaxCalls
    /\ export_data_dictionary("data_dictionary.json", "")
    /\ Count(last'.exc)
    /\ UNCHANGED <<pyarrow, loaderVars, transformerVars, provenance_record,
                   pc, rc>>

E_ExportSummaryStatistics ==
    /\ calls.made < MaxCalls
    /\ export_summary_statistics("summary_statistics.csv", "")
    /\ Count(last'.exc)
    /\ UNCHANGED <<pyarrow, loaderVars, transformerVars, provenance_record,
                   pc, rc>>

E_SaveExportLog ==
    /\ calls.made < MaxCalls
    /\ save_export_log("export_log.json", "")
    /\ Count(last'.exc)
    /\ UNCHANGED <<pyarrow, loaderVars, transformerVars, provenance_record,
                   pc, rc>>

InitExporter ==
    /\ fs = NoFiles
    /\ pyarrow \in BOOLEAN
    /\ t_df = None
    /\ e_df \in ExportTables
    /\ Idle("DataExporter")

NextExporter ==
    \/ E_ExportCsv
    \/ E_ExportJson
    \/ E_ExportParquet
    \/ E_ExportDataDictionary
    \/ E_ExportSummaryStatistics
    \/ E_SaveExportLog

SpecExporter == InitExporter /\ [][NextExporter]_vars

\* ProvenanceLogger(project_name), then its recording calls and
\* save_provenance_record in any order, as the main() at the foot of
\* log_provenance.py does; the file system accepts every write.
ALTERNATE_SOURCE_INFO ==
    [title |-> "AI4I 2020 (mirror)", source_url |-> "https://example.org/ai4i"]

P_Frame == <<pyarrow, loaderVars, transformerVars, exporterVars, pc, rc>>

P_LogDatasetSource ==
    /\ calls.made < MaxCalls
    /\ \E source_info \in {SOURCE_INFO, ALTERNATE_SOURCE_INFO} :
          log_dataset_source(source_info)
    /\ Count(last'.exc)
    /\ UNCHANGED <<fs, P_Frame>>

P_AddCuratorInfo ==
    /\ calls.made < MaxCalls
    /\ \E curator_name \in {"Hard Shah", "Second Curator"} :
          add_curator_info(curator_name, "UIUC", "curator@example.edu")
    /\ Count(last'.exc)
    /\ UNCHANGED <<fs, P_Frame>>

P_CaptureSystemEnvironment ==
    /\ calls.made < MaxCalls
    /\ capture_system_environment
    /\ Count(last'.exc)
    /\ UNCHANGED <<fs, P_Frame>>

P_LogWorkflowStep ==
    /\ calls.made < MaxCalls
    /\ log_workflow_step("data_acquisition", "Downloaded dataset",
                         [source |-> "UCI"], "completed")
    /\ Count(last'.exc)
    /\ UNCHANGED <<fs, P_Frame>>

P_LogTransformation ==
    /\ calls.made < MaxCalls
    /\ log_transformation("normalization", [method |-> "StandardScaler"])
    /\ Count(last'.exc)
    /\ UNCHANGED <<fs, P_Frame>>

P_LogQualityCheck ==
    /\ calls.made < MaxCalls
    /\ \E passed \in BOOLEAN :
          log_quality_check("completeness_check", [missing_values |-> 0],
                            passed)
    /\ Count(last'.exc)
    /\ UNCHANGED <<fs, P_Frame>>

P_LogExport ==
    /\ calls.made < MaxCalls
    /\ log_export([format |-> "CSV", filename |-> CSV_NAME])
    /\ Count(last'.exc)
    /\ UNCHANGED <<fs, P_Frame>>

P_AddNotes ==
    /\ calls.made < MaxCalls
    /\ add_notes("Dataset exhibits class imbalance", "data_quality")
    /\ Count(last'.exc)
    /\ UNCHANGED <<fs, P_Frame>>

P_SaveProvenanceRecord ==
    /\ calls.made < MaxCalls
    /\ save_provenance_record(PROVENANCE_PATH, "")
    /\ Count(last'.exc)
    /\ UNCHANGED P_Frame

InitProvenance ==
    /\ fs = NoFiles
    /\ pyarrow = TRUE
    /\ now = 1
    /\ loader_df = None
    /\ validation_results = None
    /\ t_df = None
    /\ df_transformed = None
    /\ df_normalized = None
    /\ transformation_log = <<>>
    /\ e_df = None
    /\ export_log = <<>>
    /\ provenance_record = NewProvenanceRecord(PROJECT_NAME, 0)
    /\ pc = "ProvenanceLogger"
    /\ rc = -1
    /\ calls = NoCalls
    /\ last = NoCall

NextProvenance ==
    \/ P_LogDatasetSource
    \/ P_AddCuratorInfo
    \/ P_CaptureSystemEnvironment
    \/ P_LogWorkflowStep
    \/ P_LogTransformation
    \/ P_LogQualityCheck
    \/ P_LogExport
    \/ P_AddNotes
    \/ P_SaveProvenanceRecord

SpecProvenance == InitProvenance /\ [][NextProvenance]_vars

\* detect_outliers('iqr', threshold) as a function of the table and the
\* threshold: one table, examined at several thresholds.
SpreadValues == {0, 2, 10}

SpreadRow(v) == Row(298, 308 + v, 1500 - v, 40, v, "L")

OutlierTables ==
    { Table({}, {}, {}, [i \in 1..OutlierRows |-> SpreadRow(values[i])]) :
        values \in [1..OutlierRows -> SpreadValues] }

O_Detect ==
    /\ calls.made < MaxCalls
    /\ \E threshold \in Thresholds : detect_outliers("iqr", threshold)
    /\ Count(last'.exc)
    /\ UNCHANGED <<fs, pyarrow, loaderVars, exporterVars, provenance_record,
                   pc, rc>>

InitOutliers ==
    /\ fs = NoFiles
    /\ pyarrow = TRUE
    /\ t_df \in OutlierTables
    /\ e_df = None
    /\ Idle("detect_outliers")

NextOutliers == O_Detect

SpecOutliers == InitOutliers /\ [][NextOutliers]_vars

\* ================================================================ claims
\* ------------------------------------------------------------------- C1
\* a is b with some elements left out: the elements of a occur in b in the
\* same relative order.
RECURSIVE Embeds(_, _)
Embeds(a, b) ==
    IF a = <<>> THEN TRUE
    ELSE IF b = <<>> THEN FALSE
    ELSE IF Head(a) = Head(b) THEN Embeds(Tail(a), Tail(b))
    ELSE Embeds(a, Tail(b))

\* The operation kinds of a transformation log, and the file names of an
\* export log, in order.
Kinds(records, field) == [i \in 1..Len(records) |-> records[i][field]]

\* C1: once main() has written the provenance record, its
\* data_transformations list holds, in order, every operation of the
\* transformer's transformation_log, and its exports list holds, in order,
\* every entry of the exporter's export_log.
C1_ProvenanceCoversLogs ==
    PROVENANCE_PATH \in DOMAIN fs =>
        /\ Embeds(Kinds(transformation_log, "operation"),
                  Kinds(fs[PROVENANCE_PATH].data_transformations, "type"))
        /\ Embeds(Kinds(export_log, "filename"),
                  Kinds(fs[PROVENANCE_PATH].exports, "filename"))

\* ------------------------------------------------------------------- C2
\* C2: for every loaded dataset, the column-set check of validate_structure
\* is FAIL if and only if some expected column is absent from the dataset;
\* columns beyond the schema are listed under 'extra' and leave it PASS.
C2_ColumnsFailIffMissing ==
    validation_results # None =>
        LET check == validation_results.columns
            absent == {c \in EXPECTED_COLUMNS : c \notin loader_df.columns}
        IN  /\ check.status \in {"PASS", "FAIL"}
            /\ check.status = "FAIL" <=> absent # {}
            /\ check.missing = absent
            /\ check.extra = {c \in loader_df.columns : c \notin EXPECTED_COLUMNS}

\* A validated dataset with a column beyond the schema and none missing.
C2_Witness ==
    /\ validation_results # None
    /\ validation_results.columns.extra # {}
    /\ validation_results.columns.missing = {}
    /\ validation_results.columns.status = "PASS"

\* ------------------------------------------------------------------- C3
\* C3: the row-count, data-type, missing-value and duplicate checks never
\* report FAIL: each is WARN exactly when its condition holds (row count
\* differs from the expected count, a present column's dtype differs from
\* the expected one, a null cell, a row equal to an earlier row), else PASS.
C3_AdvisoryChecksNeverFail ==
    validation_results # None =>
        LET df == loader_df
            r == validation_results
            Advisory(status, condition) ==
                /\ status \in {"PASS", "WARN"}
                /\ status = "WARN" <=> condition
        IN  /\ Advisory(r.row_count.status, Len(df.rows) # EXPECTED_ROWS)
            /\ Advisory(r.data_types.status,
                        \E c \in df.columns \cap EXPECTED_COLUMNS :
                            df.dtypes[c] # EXPECTED_DTYPES[c])
            /\ Advisory(r.missing_values.status,
                        \E i \in 1..Len(df.rows) :
                            \E c \in DOMAIN df.rows[i] : IsNull(c, df.rows[i][c]))
            /\ Advisory(r.duplicates.status,
                        \E i, j \in 1..Len(df.rows) :
                            i < j /\ df.rows[i] = df.rows[j])

\* A validated dataset for which all four advisory conditions hold.
C3_Witness ==
    /\ validation_results # None
    /\ validation_results.row_count.status = "WARN"
    /\ validation_results.data_types.status = "WARN"
    /\ validation_results.missing_values.status = "WARN"
    /\ validation_results.duplicates.status = "WARN"

\* ------------------------------------------------------------------- C4
FiveChecks ==
    {"row_count", "columns", "data_types", "missing_values", "duplicates"}

\* Expected row count, every expected column present with its expected
\* dtype, no null cell and no repeated row.
MatchesSchema(df) ==
    /\ Len(df.rows) = EXPECTED_ROWS
    /\ \A c \in EXPECTED_COLUMNS :
          c \in df.columns /\ df.dtypes[c] = EXPECTED_DTYPES[c]
    /\ \A i \in 1..Len(df.rows) :
          \A c \in DOMAIN df.rows[i] : ~IsNull(c, df.rows[i][c])
    /\ \A i, j \in 1..Len(df.rows) : i # j => df.rows[i] # df.rows[j]

\* C4: on a loaded dataset validate_structure returns a report with exactly
\* the five checks; with a required column missing the other four are still
\* reported, the type check leaving the absent column out; and a dataset
\* that matches the schema gets PASS on all five.
C4_FiveChecksAlways ==
    /\ (last.op = "validate_structure" /\ loader_df # None) => last.exc = ""
    /\ validation_results # None =>
          /\ DOMAIN validation_results = FiveChecks
          /\ \A k \in FiveChecks :
                validation_results[k].status \in {"PASS", "WARN", "FAIL"}
          /\ \A k \in FiveChecks \ {"columns"} :
                validation_results[k].status # "FAIL"
          /\ \A m \in validation_results.data_types.mismatches :
                m.column \in loader_df.columns
          /\ MatchesSchema(loader_df) =>
                \A k \in FiveChecks : validation_results[k].status = "PASS"

\* A validated dataset that lacks a required column while a column it does
\* have is of the wrong dtype: all five checks are reported.
C4_Witness ==
    /\ validation_results # None
    /\ validation_results.columns.status = "FAIL"
    /\ validation_results.data_types.status = "WARN"
    /\ validation_results.missing_values.status = "WARN"
    /\ DOMAIN validation_results = FiveChecks

\* A validated dataset that matches the schema.
AllPassReached ==
    /\ validation_results # None
    /\ MatchesSchema(loader_df)

\* ------------------------------------------------------------------- C5
\* Nothing of the transformation, export or provenance stages has happened.
NoStageStarted ==
    /\ t_df = None
    /\ e_df = None
    /\ provenance_record = None
    /\ DOMAIN fs \subseteq {DATA_PATH}

\* C5: main() ends with a non-zero result and no stage started when the
\* input file is missing or a validation check is FAIL; when every check is
\* PASS or WARN (and the file system accepts every write) it ends with
\* result 0 after transformation, export and provenance.
C5_AbortOrSucceed ==
    pc = "done" =>
        /\ DATA_PATH \notin DOMAIN fs => rc # 0 /\ NoStageStarted
        /\ (validation_results # None /\ ~AllPassed(validation_results)) =>
              rc # 0 /\ NoStageStarted
        /\ (validation_results # None /\ AllPassed(validation_results)
            /\ last.exc # "OSError") =>
              rc = 0 /\ PROVENANCE_PATH \in DOMAIN fs

\* ------------------------------------------------------------------- C6
\* C6: main() ends either with the provenance record written, or with no
\* output artifact written at all.
C6_RecordOrNoArtifacts ==
    pc = "done" =>
        \/ PROVENANCE_PATH \in DOMAIN fs
        \/ DOMAIN fs \subseteq {DATA_PATH}

\* ------------------------------------------------------------------- C7
\* The call just made named a method the operation does not support.
UnsupportedCall ==
    /\ calls'.made = calls.made + 1
    /\ \/ last'.op = "normalize_features" /\ last'.method \notin Methods
       \/ last'.op = "detect_outliers" /\ last'.method \notin {"iqr", "zscore"}

\* C7: a normalize_features or detect_outliers call with an unsupported
\* method name fails and leaves the transformer's df, df_transformed and
\* transformation_log as they were before the call.
C7_UnsupportedMethodTouchesNothing ==
    [][UnsupportedCall =>
          /\ last'.exc # ""
          /\ UNCHANGED <<t_df, df_transformed, transformation_log>>]_vars

\* ------------------------------------------------------------------- C8
OperationKind(op) ==
    CASE op = "detect_outliers" -> "outlier_detection"
      [] op = "normalize_features" -> "normalization"
      [] op = "compute_derived_features" -> "feature_engineering"

\* The parameters a record of the call `call` carries.
CarriesParameters(r, call) ==
    CASE call.op = "detect_outliers" ->
            /\ r.method = call.method
            /\ r.threshold = call.threshold
            /\ DOMAIN r.results = Features
      [] call.op = "normalize_features" ->
            /\ r.method = call.method
            /\ r.features = CONTINUOUS_FEATURES
            /\ DOMAIN r.parameters = Features
      [] call.op = "compute_derived_features" ->
            r.derived_features = DERIVED_FEATURES

\* One transformer call: a call that returns appends one record, of its own
\* kind, stamped with the time of the call, after the records already there;
\* a call that raises appends none.
AppendsOneRecord ==
    calls'.made = calls.made + 1 =>
        IF last'.exc = ""
        THEN /\ Len(transformation_log') = Len(transformation_log) + 1
             /\ SubSeq(transformation_log', 1, Len(transformation_log))
                    = transformation_log
             /\ LET r == transformation_log'[Len(transformation_log')]
                IN  /\ r.operation = OperationKind(last'.op)
                    /\ r.timestamp = now
                    /\ CarriesParameters(r, last')
        ELSE transformation_log' = transformation_log

\* C8: every successful detect_outliers, normalize_features or
\* compute_derived_features call appends exactly one record (operation kind,
\* timestamp, parameters) after the earlier records, which stay as they
\* were; the length of the log is the number of successful calls.
C8_OneRecordPerSuccessfulCall ==
    /\ [][AppendsOneRecord]_vars
    /\ [](Len(transformation_log) = calls.ok)

\* Three calls, one of which raised: the log holds the other two in call
\* order.
C8_Witness ==
    /\ calls.made = 3
    /\ calls.ok = 2
    /\ Len(transformation_log) = 2
    /\ transformation_log[1].operation = "feature_engineering"
    /\ transformation_log[2].operation = "outlier_detection"

\* ------------------------------------------------------------------- C9
\* The names of the parameter pair each method records.
ParameterNames(method) ==
    CASE method = "standard" -> {"mean", "std"}
      [] method = "minmax" -> {"min", "max"}
      [] method = "robust" -> {"center", "scale"}

\* The inverse transform of a scaled cell z, from a recorded pair alone:
\* z * std + mean, z * (max - min) + min, z * scale + center.
Inverse(method, p, z) ==
    CASE method = "standard" -> Unscale(z, <<p.std[2], p.std[3]>>, p.mean)
      [] method = "minmax" ->
            Unscale(z, RMul(RSub(p.max, p.min), RSub(p.max, p.min)), p.min)
      [] method = "robust" -> Unscale(z, RMul(p.scale, p.scale), p.center)

\* C9: after normalize_features, for each method and each scaled feature,
\* the normalization record holds the feature's parameter pair, and the
\* method's inverse transform with the recorded pair takes every scaled
\* cell back to the original cell.
C9_RecordedParametersInvert ==
    (last.op = "normalize_features" /\ last.exc = "") =>
        LET r == transformation_log[Len(transformation_log)]
        IN  /\ r.operation = "normalization"
            /\ r.method = last.method
            /\ \A f \in Features :
                  /\ DOMAIN r.parameters[f] = ParameterNames(r.method)
                  /\ \A i \in 1..Len(t_df.rows) :
                        Inverse(r.method, r.parameters[f],
                                df_transformed.rows[i][f]) = t_df.rows[i][f]

\* A three-row table after standard scaling, its cells no longer the
\* original ones.
C9_Witness ==
    /\ last.op = "normalize_features"
    /\ last.method = "standard"
    /\ last.exc = ""
    /\ Len(t_df.rows) = 3
    /\ \A i \in 1..3 :
          df_transformed.rows[i]["Torque [Nm]"] # t_df.rows[i]["Torque [Nm]"]

\* ------------------------------------------------------------------ C10
\* C10: every entry of export_log has a checksum equal to the digest of the
\* file now at the entry's path.
C10_ChecksumsMatchFiles ==
    \A i \in 1..Len(export_log) :
        export_log[i].checksum_sha256
            = calculate_checksum(fs, export_log[i].path)

\* ------------------------------------------------------------------ C11
\* What an export_log entry is to hold: format, filename, row count, column
\* count, size and checksum.
ArtifactFields ==
    {"format", "filename", "rows", "columns", "size_mb", "checksum_sha256"}

\* C11: every entry export_csv, export_json or export_parquet appends to
\* export_log holds format, filename, row count, column count, size and
\* checksum.
C11_EntriesHoldAllFields ==
    \A i \in 1..Len(export_log) : ArtifactFields \subseteq DOMAIN export_log[i]

\* ------------------------------------------------------------------ C12
\* C12: export_log holds exactly one entry for each file the exporter has
\* written, the data dictionary and the summary statistics included.
C12_OneEntryPerWrittenFile ==
    \A path \in DOMAIN fs :
        Cardinality({i \in 1..Len(export_log) : export_log[i].path = path}) = 1

\* ------------------------------------------------------------------ C13
\* The skipped Parquet export is on record: in the export log in memory or
\* as saved, or in the provenance record or its text summary.
ParquetSkipRecorded ==
    LET Named(entries) ==
            \E i \in 1..Len(entries) : entries[i].format = "Parquet"
        saved_log == <<OUTPUT_DIR, "export_log.json">>
    IN  \/ Named(export_log)
        \/ saved_log \in DOMAIN fs /\ Named(fs[saved_log])
        \/ Named(provenance_record.exports)
        \/ "notes" \in DOMAIN provenance_record
              /\ \E i \in 1..Len(provenance_record.notes) :
                    provenance_record.notes[i].category = "warning"

\* C13: with no Parquet engine installed, export_parquet does not raise and
\* appends no entry, the remaining exports still run and main() succeeds,
\* and the skip is recorded in the export log or the final summaries.
C13_ParquetSkipIsRecorded ==
    /\ (last.op = "export_parquet" /\ ~pyarrow) =>
          /\ last.exc = "skipped"
          /\ \A i \in 1..Len(export_log) : export_log[i].format # "Parquet"
    /\ (pc = "done" /\ ~pyarrow /\ last.exc # "OSError"
        /\ validation_results # None /\ AllPassed(validation_results)
        /\ Len0(loader_df) > 0) =>
          /\ rc = 0
          /\ {<<OUTPUT_DIR, "data_dictionary.json">>,
              <<OUTPUT_DIR, "summary_statistics.csv">>,
              <<OUTPUT_DIR, "export_log.json">>} \subseteq DOMAIN fs
          /\ ParquetSkipRecorded

\* ------------------------------------------------------------------ C14
IsPrefix(a, b) == Len(a) <= Len(b) /\ SubSeq(b, 1, Len(a)) = a

\* Everything held by the record `old` is still held, unmodified, by `new`.
Preserved(old, new) ==
    /\ \A k \in {"curation_workflow", "data_transformations",
                 "quality_checks", "exports"} : IsPrefix(old[k], new[k])
    /\ "notes" \in DOMAIN old =>
          "notes" \in DOMAIN new /\ IsPrefix(old.notes, new.notes)
    /\ old.dataset_source # None => new.dataset_source = old.dataset_source
    /\ "curator" \in DOMAIN old =>
          "curator" \in DOMAIN new /\ new.curator = old.curator

\* C14: no recording call of the ProvenanceLogger replaces or erases what
\* an earlier call recorded; a second log_dataset_source or
\* add_curator_info leaves the first one's record in place.
C14_RecordingIsIrreversible ==
    [][Preserved(provenance_record, provenance_record')]_vars

\* ------------------------------------------------------------------ C15
RecordingOps ==
    {"log_dataset_source", "add_curator_info", "capture_system_environment",
     "log_workflow_step", "log_transformation", "log_quality_check",
     "log_export", "add_notes"}

\* One ProvenanceLogger call, before or after a persist: a recording call
\* returns and changes the record in memory; save_provenance_record leaves
\* the file holding the record as it is now, which differs from the file it
\* replaces exactly when a recording call came after the previous save.
SealingNotEnforced ==
    calls'.made = calls.made + 1 =>
        IF last'.op \in RecordingOps
        THEN /\ last'.exc = ""
             /\ provenance_record' # provenance_record
             /\ fs' = fs
        ELSE /\ last'.op = "save_provenance_record"
             /\ fs'[PROVENANCE_PATH] = provenance_record
             /\ PROVENANCE_PATH \in DOMAIN fs =>
                   (fs'[PROVENANCE_PATH] # fs[PROVENANCE_PATH])
                       <=> (last.op \in RecordingOps)

\* C15: sealing is not enforced: after a persist every recording call still
\* succeeds and changes the record in memory, and a second
\* save_provenance_record to the same path replaces the file with the
\* current record, which differs from the first output whenever a recording
\* call happened in between.
C15_SealingNotEnforced == [][SealingNotEnforced]_vars

\* A record persisted and then recorded into: the call returned, and the
\* record in memory is no longer the one in the file.
C15_Witness ==
    /\ PROVENANCE_PATH \in DOMAIN fs
    /\ last.op \in RecordingOps
    /\ last.exc = ""
    /\ fs[PROVENANCE_PATH] # provenance_record
    /\ Len(fs[PROVENANCE_PATH].curation_workflow) = 1
    /\ Len(provenance_record.curation_workflow) = 2

\* ------------------------------------------------------------------ C16
\* Every recording call main() makes has been made on the record r.
AllRecorded(r) ==
    /\ r.dataset_source # None
    /\ "curator" \in DOMAIN r
    /\ r.system_environment # None
    /\ Len(r.curation_workflow) = 3
    /\ Len(r.data_transformations) = 1
    /\ Len(r.quality_checks) = 2
    /\ "notes" \in DOMAIN r /\ Len(r.notes) = 1

\* Once the record is in its file, neither the record nor the file changes
\* and save_provenance_record is not called again; and the one call of
\* save_provenance_record comes when every recording call has been made.
PersistIsLast ==
    /\ PROVENANCE_PATH \in DOMAIN fs =>
          /\ provenance_record' = provenance_record
          /\ PROVENANCE_PATH \in DOMAIN fs'
          /\ fs'[PROVENANCE_PATH] = fs[PROVENANCE_PATH]
          /\ last'.op # "save_provenance_record"
    /\ (last'.op = "save_provenance_record" /\ last' # last) =>
          /\ last.op # "save_provenance_record"
          /\ AllRecorded(provenance_record)
          /\ provenance_record' = provenance_record

\* C16: main() persists the provenance record at most once, in a successful
\* run exactly once, after every recording call of the run; no recording
\* call follows the persist.
C16_PersistedOnceAtTheEnd ==
    /\ [][PersistIsLast]_vars
    /\ []((pc = "done" /\ rc = 0) =>
            /\ PROVENANCE_PATH \in DOMAIN fs
            /\ fs[PROVENANCE_PATH] = provenance_record
            /\ AllRecorded(fs[PROVENANCE_PATH]))

\* A successful run at its end: the file holds the complete record.
C16_Witness ==
    /\ pc = "done"
    /\ rc = 0
    /\ PROVENANCE_TEXT_PATH \in DOMAIN fs
    /\ AllRecorded(fs[PROVENANCE_PATH])

\* ------------------------------------------------------------------ C17
\* C17: no transformer call changes the transformer's df, and a
\* compute_derived_features call leaves the table an earlier
\* normalize_features call returned as it was returned.
C17_NoStageMutatesInPlace ==
    [][calls'.made = calls.made + 1 =>
          /\ t_df' = t_df
          /\ (last'.op = "compute_derived_features" /\ df_normalized # None)
                => df_normalized'.df = df_normalized.df]_vars

\* ------------------------------------------------------------------ C18
\* One detect_outliers call: the tables are as before, and the log has one
\* more record when the call returns and is as before when it raises.
DetectTouchesNoData ==
    (calls'.made = calls.made + 1 /\ last'.op = "detect_outliers") =>
        /\ t_df' = t_df
        /\ df_transformed' = df_transformed
        /\ df_normalized' = df_normalized
        /\ IF last'.exc = ""
           THEN /\ Len(transformation_log') = Len(transformation_log) + 1
                /\ IsPrefix(transformation_log, transformation_log')
           ELSE transformation_log' = transformation_log

\* C18: detect_outliers, for either method and any threshold, changes no
\* dataset value and removes no row: df and df_transformed are the same
\* before and after, and the only change is one record appended to
\* transformation_log.
C18_DetectTouchesNoData == [][DetectTouchesNoData]_vars

\* detect_outliers has flagged a row of a table that was normalized before.
C18_Witness ==
    /\ last.op = "detect_outliers"
    /\ last.exc = ""
    /\ df_transformed # None
    /\ Len(df_transformed.rows) = 3
    /\ transformation_log[Len(transformation_log)].results["Torque [Nm]"] > 0

\* ------------------------------------------------------------------ C19
\* Closed-open buckets: [0, 100) Low, [100, 200) Medium, [200, inf) High.
ClosedOpenCategory(w) ==
    IF ~RLt(w, R(0)) /\ RLt(w, R(100)) THEN "Low"
    ELSE IF ~RLt(w, R(100)) /\ RLt(w, R(200)) THEN "Medium"
    ELSE "High"

\* C19: compute_derived_features puts every tool-wear value w >= 0 in the
\* closed-open bucket it belongs to: 0 is Low, 100 is Medium, 200 is High,
\* and no non-negative value is left without a category.
C19_ClosedOpenBins ==
    (df_transformed # None /\ "Tool_Wear_Category" \in df_transformed.columns)
    => \A i \in 1..Len(df_transformed.rows) :
          LET w == t_df.rows[i]["Tool wear [min]"]
          IN  (~IsNaN(w) /\ ~RLt(w, R(0))) =>
                 df_transformed.rows[i]["Tool_Wear_Category"]
                    = ClosedOpenCategory(w)

\* ------------------------------------------------------------------ C20
\* One compute_derived_features call: the derived cells of every row are
\* those of the original table self.df, and the scale-set cells of
\* df_transformed are what they were (those of self.df when there was no
\* df_transformed yet).
DerivesFromOriginals ==
    (calls'.made = calls.made + 1 /\ last'.op = "compute_derived_features") =>
        LET before == IF df_transformed = None THEN t_df ELSE df_transformed
        IN  /\ last'.exc = ""
            /\ Len(df_transformed'.rows) = Len(t_df.rows)
            /\ \A i \in 1..Len(t_df.rows) :
                  LET original == t_df.rows[i]
                      row == df_transformed'.rows[i]
                  IN  /\ row["Temp_Difference"] =
                            RSub(original["Process temperature [K]"],
                                 original["Air temperature [K]"])
                      /\ row["Power_Estimate"] =
                            RMul(RMul(original["Torque [Nm]"],
                                      original["Rotational speed [rpm]"]),
                                 Rat(1, 30))
                      /\ row["Tool_Wear_Category"] =
                            ToolWearCategory(original["Tool wear [min]"])
                      /\ \A f \in Features : row[f] = before.rows[i][f]

\* C20: compute_derived_features computes the three derived columns from
\* the original, pre-scaling values whether or not normalize_features was
\* called before it, and leaves the scale-set columns of df_transformed
\* unchanged.
C20_DerivesFromOriginals == [][DerivesFromOriginals]_vars

\* Derived after scaling: the torque cell is the scaled one, the temperature
\* difference is that of the original row (308 - 298).
C20_Witness ==
    /\ last.op = "compute_derived_features"
    /\ Len(t_df.rows) = 3
    /\ df_transformed.rows[1]["Torque [Nm]"] # t_df.rows[1]["Torque [Nm]"]
    /\ df_transformed.rows[1]["Temp_Difference"] = R(10)

\* ------------------------------------------------------------------ C21
\* C21: for every table and every scale-set feature, the IQR method flags
\* no more rows at a larger threshold than at a smaller one: the count
\* recorded at 3.0 is at most the count recorded at 1.5.
C21_CountFallsAsThresholdRises ==
    \A i, j \in 1..Len(transformation_log) :
        LET low == transformation_log[i]
            high == transformation_log[j]
        IN  (/\ low.operation = "outlier_detection" /\ low.method = "iqr"
             /\ high.operation = "outlier_detection" /\ high.method = "iqr"
             /\ RLt(low.threshold, high.threshold))
            => \A f \in Features : high.results[f] <= low.results[f]

\* One table examined at 1.5 and at 3.0: a row flagged at 1.5 is no longer
\* flagged at 3.0.
C21_Witness ==
    \E i, j \in 1..Len(transformation_log) :
        /\ transformation_log[i].threshold = <<3, 2>>
        /\ transformation_log[j].threshold = <<3, 1>>
        /\ transformation_log[i].results["Tool wear [min]"] = 1
        /\ transformation_log[j].results["Tool wear [min]"] = 0

\* ------------------------------------------------------------------ C22
\* C22: in every run of the orchestrator, once the exporter exists (so
\* before the first export call) the transformation log holds the
\* normalization record with the fitted parameters of the exported data,
\* and that log is on disk.
ExportOps ==
    {"export_csv", "export_json", "export_parquet", "export_data_dictionary",
     "export_summary_statistics", "save_export_log"}

ExportBegun ==
    \/ e_df # None
    \/ export_log # <<>>
    \/ last.op \in ExportOps
    \/ \E name \in {CSV_NAME, JSON_NAME, PARQUET_NAME} :
          OutputPath(name) \in DOMAIN fs

HasNormalizationRecord(log) ==
    \E i \in 1..Len(log) :
        /\ log[i].operation = "normalization"
        /\ log[i].method = "standard"
        /\ DOMAIN log[i].parameters = Features

\* At the first export call the recorded parameters are those fitted on the
\* input, and the exported table is the input scaled by them.
ParametersFitExport ==
    /\ \E i \in 1..Len(transformation_log) :
          /\ transformation_log[i].operation = "normalization"
          /\ transformation_log[i].parameters = ScalingParams(t_df, "standard")
    /\ \A f \in Features :
          Column(e_df, f) = Column(Scaled(t_df, "standard"), f)

C22_ParametersRecordedBeforeExport ==
    /\ ExportBegun =>
          /\ HasNormalizationRecord(transformation_log)
          /\ TLOG_PATH \in DOMAIN fs
          /\ fs[TLOG_PATH] = transformation_log
    /\ pc = "export_csv" => ParametersFitExport

\* The curated CSV of a non-empty table has been written, with the log saved.
C22_Witness ==
    /\ OutputPath(CSV_NAME) \in DOMAIN fs
    /\ last.op = "export_csv"
    /\ Len(e_df.rows) >= 2
    /\ TLOG_PATH \in DOMAIN fs

\* ------------------------------------------------------------------ C23
\* C23: in a completed run, the completeness check persisted in the
\* provenance record agrees with what validation observed: its recorded
\* missing-value count is the missing_values total of the validation
\* report, and it is marked passed only if that total is zero.
CompletenessAgrees(record) ==
    \A i \in 1..Len(record.quality_checks) :
        LET check == record.quality_checks[i]
        IN  check.check_name = "completeness_check" =>
                /\ check.results.missing_values =
                       validation_results.missing_values.total
                /\ check.passed =>
                       validation_results.missing_values.total = 0

C23_CompletenessAgreesWithValidation ==
    (pc = "done" /\ rc = 0 /\ PROVENANCE_PATH \in DOMAIN fs) =>
        CompletenessAgrees(fs[PROVENANCE_PATH])

\* ------------------------------------------------------------------ C24
\* C24: after any sequence of detect_outliers, normalize_features and
\* compute_derived_features calls, df_transformed reflects every
\* transformation recorded in transformation_log: a feature_engineering
\* record means the three derived columns are present, and a normalization
\* record means the scale-set columns are scaled by the most recently
\* recorded method.
Recorded(operation) ==
    {i \in 1..Len(transformation_log) :
        transformation_log[i].operation = operation}

LastOf(indices) == CHOOSE i \in indices : \A j \in indices : j <= i

ReflectsDerivation ==
    Recorded("feature_engineering") # {} =>
        /\ df_transformed # None
        /\ Derived \subseteq df_transformed.columns

ReflectsNormalization ==
    Recorded("normalization") # {} =>
        /\ df_transformed # None
        /\ \A f \in Features :
              Column(df_transformed, f) =
                  Column(Scaled(t_df,
                      transformation_log[LastOf(Recorded("normalization"))].method),
                      f)

C24_TableReflectsLog == ReflectsDerivation /\ ReflectsNormalization

====
